---- MODULE Spec2Model ----
(***************************************************************************)
(* Webhook reconciliation of the pretix-recurrente payment plugin.         *)
(*                                                                         *)
(* The model follows pretix_recurrente/views/webhooks.py (the tenant       *)
(* scoped endpoint `webhook` and the global endpoint `global_webhook`) and *)
(* pretix_recurrente/utils.py (extract_recurrente_data,                    *)
(* is_webhook_already_processed, safe_confirm_payment).                    *)
(*                                                                         *)
(* Every delivery is handled by a worker (a request thread of the host).   *)
(* A worker's steps are the points where it touches shared state: the      *)
(* cache (duplicate fingerprints, confirmation locks) and the payment rows *)
(* of the database.  Code between two such points is folded into the step  *)
(* that precedes it.                                                       *)
(*                                                                         *)
(* Host primitives that are not part of the plugin are modelled by their   *)
(* contract: payment.confirm() either raises (quota exhausted) or sets the *)
(* payment Confirmed and marks the order paid; payment.info_data is the    *)
(* payment's metadata dictionary, read and written as the plugin code      *)
(* uses it; the settings store maps keys to values, a provider settings    *)
(* form storing its fields under the prefix payment_<provider>_.           *)
(***************************************************************************)
EXTENDS Integers, Sequences, FiniteSets, TLC

\* ------------------------------------------------------------------ bounds

\* Payments of the provider on the order, numbered in creation order.
NumPayments == 2

\* Request workers handling deliveries (each handles one delivery).
NumWorkers == 2

Payments == 1..NumPayments
Workers == 1..NumWorkers

\* ------------------------------------------------------------- vocabulary

Null == "None"

PaymentStates == {"created", "pending", "confirmed", "failed"}

OrderCode == "A"

\* Event kinds the endpoints dispatch on.
SucceededKinds == {"payment_intent.succeeded", "checkout.completed"}
FailedKinds == {"payment.failed", "checkout.expired", "payment_intent.payment_failed"}

ExternalId(p) == IF p = 1 THEN "pa_1" ELSE IF p = 2 THEN "pa_2" ELSE "pa_3"
CheckoutId(p) == IF p = 1 THEN "ch_1" ELSE IF p = 2 THEN "ch_2" ELSE "ch_3"

\* The correlation metadata echoed back by the gateway.
Meta(code, pid, slugs) ==
    [order_code |-> code, payment_id |-> pid,
     event_slug |-> slugs, organizer_slug |-> slugs]

\* A variant of NoMeta: an extraction that falls back to a default order
\* and tenant when the payload names none.
DefaultMeta == Meta(OrderCode, 0, "t")

\* What extraction yields when no metadata is found: no order code.
NoMeta == Meta(Null, 0, Null)

\* A notification payload.  checkout is TRUE when the payload has a checkout
\* dict; cmeta / tmeta say whether checkout.metadata / top-level metadata is
\* "absent", a "dict" (with content meta) or present but "other" than a dict.
\* type is the top-level field 'type' (event_type being the field
\* 'event_type'); pmeta / dmeta say the same as cmeta for payment.metadata
\* and data.metadata.
RawNotification(event_type, type, id, chk, cmeta, tmeta, pmeta, dmeta, meta) ==
    [event_type |-> event_type, type |-> type, id |-> id, checkout |-> chk # Null,
     checkout_id |-> chk, cmeta |-> cmeta, tmeta |-> tmeta,
     pmeta |-> pmeta, dmeta |-> dmeta, meta |-> meta]

\* A notification that names its kind in event_type and has no metadata
\* under payment or data.
Notification(kind, id, chk, cmeta, tmeta, meta) ==
    RawNotification(kind, Null, id, chk, cmeta, tmeta, "absent", "absent", meta)

Payloads ==
    << Notification("payment_intent.succeeded", ExternalId(1), CheckoutId(1),
                    "dict", "absent", Meta(OrderCode, 1, "t")),
       Notification("payment.failed", ExternalId(1), CheckoutId(1),
                    "dict", "absent", Meta(OrderCode, 1, "t")),
       Notification("payment_intent.succeeded", "pa_z", "ch_z",
                    "dict", "absent", Meta("Z", 0, "t")),
       Notification("payment_intent.succeeded", ExternalId(1), CheckoutId(1),
                    "absent", "absent", NoMeta),
       Notification("payment_intent.created", ExternalId(1), CheckoutId(1),
                    "dict", "absent", Meta(OrderCode, 1, "t")) >>

PayloadIds == 1..Len(Payloads)

\* Notifications correlated by the checkout id alone: the metadata names the
\* order but no payment, or names an order code that no order has.
CorrelationPayloads ==
    << Notification("payment_intent.succeeded", ExternalId(1), CheckoutId(1),
                    "dict", "absent", Meta(OrderCode, 0, "t")),
       Notification("payment_intent.succeeded", ExternalId(1), CheckoutId(1),
                    "dict", "absent", Meta("Z", 0, "t")) >>

\* Notifications of the kinds extraction normalizes to 'failed'.
KindPayloads ==
    << Notification("payment_intent.failed", ExternalId(1), CheckoutId(1),
                    "dict", "absent", Meta(OrderCode, 1, "t")),
       Notification("payment_intent.canceled", ExternalId(1), CheckoutId(1),
                    "dict", "absent", Meta(OrderCode, 1, "t")) >>

\* Notifications of other shapes: the only metadata dict is the top-level
\* one beside a checkout.metadata that is not a dict, is data.metadata, or
\* is payment.metadata; the kind is named in 'type' only.
ShapePayloads ==
    << RawNotification("payment_intent.succeeded", Null, ExternalId(1), CheckoutId(1),
                       "other", "dict", "absent", "absent", Meta(OrderCode, 1, "t")),
       RawNotification("payment_intent.succeeded", Null, ExternalId(1), CheckoutId(1),
                       "absent", "absent", "absent", "dict", Meta(OrderCode, 1, "t")),
       RawNotification("payment_intent.succeeded", Null, ExternalId(1), CheckoutId(1),
                       "absent", "absent", "dict", "absent", Meta(OrderCode, 1, "t")),
       RawNotification(Null, "payment_intent.succeeded", ExternalId(1), CheckoutId(1),
                       "dict", "absent", "absent", "absent", Meta(OrderCode, 1, "t")) >>

AllPayloads == Payloads \o CorrelationPayloads \o KindPayloads \o ShapePayloads
ShapePayloadIds ==
    (Len(Payloads) + Len(CorrelationPayloads) + Len(KindPayloads) + 1)..
        Len(AllPayloads)
CorrelationPayloadIds ==
    (Len(Payloads) + 1)..(Len(Payloads) + Len(CorrelationPayloads))
KindPayloadIds ==
    (Len(Payloads) + Len(CorrelationPayloads) + 1)..
        (Len(Payloads) + Len(CorrelationPayloads) + Len(KindPayloads))

\* ---------------------------------------------------------- pure functions

\* extract_recurrente_data: the normalized event record.  It has no keys
\* 'id', 'checkout', 'payment' or 'event_id'.
extract_recurrente_data(pl) ==
    LET metadata == IF pl.checkout /\ pl.cmeta # "absent" THEN
                        IF pl.cmeta = "dict" THEN pl.meta ELSE NoMeta
                    ELSE IF pl.tmeta = "dict" THEN pl.meta ELSE NoMeta
    IN  [event_type |-> pl.event_type,
         external_checkout_id |-> IF pl.checkout THEN pl.checkout_id ELSE Null,
         external_payment_id |-> pl.id,
         order_code |-> metadata.order_code,
         payment_id_pretix |-> metadata.payment_id,
         event_slug |-> metadata.event_slug,
         organizer_slug |-> metadata.organizer_slug,
         status_recurrente |->
             IF pl.event_type = "payment_intent.succeeded" THEN "succeeded"
             ELSE IF pl.event_type \in {"payment_intent.failed", "payment_intent.canceled"}
                  THEN "failed" ELSE Null]

\* checkout_data_obj = data.get('checkout', {}); checkout_data_obj.get('id'),
\* read from the extracted record.
EndpointCheckoutId(data) ==
    IF "checkout" \in DOMAIN data THEN data.checkout.id ELSE Null

\* data.get('payment', {}).get('id', data.get('id')), read from the extracted
\* record.
EndpointPaymentId(data) ==
    IF "payment" \in DOMAIN data THEN data.payment.id
    ELSE IF "id" \in DOMAIN data THEN data.id ELSE Null

\* Strings as the sequences of their parts between underscores, so that
\* joining with '_' (as the f-strings of the cache keys do) is concatenation
\* and two different pairs of strings can give the same key.
Tokens(str) ==
    CASE str = "pa_1" -> <<"pa", "1">>
      [] str = "pa_2" -> <<"pa", "2">>
      [] str = "pa_3" -> <<"pa", "3">>
      [] str = "pa_z" -> <<"pa", "z">>
      [] str = "ch_1" -> <<"ch", "1">>
      [] str = "ch_2" -> <<"ch", "2">>
      [] str = "ch_3" -> <<"ch", "3">>
      [] str = "ch_z" -> <<"ch", "z">>
      [] str = "payment_intent.succeeded" -> <<"payment", "intent.succeeded">>
      [] str = "payment_intent.created" -> <<"payment", "intent.created">>
      [] str = "payment_intent.failed" -> <<"payment", "intent.failed">>
      [] str = "payment_intent.canceled" -> <<"payment", "intent.canceled">>
      [] str = "payment_intent.payment_failed" -> <<"payment", "intent.payment", "failed">>
      [] OTHER -> <<str>>

\* str(pk) of a payment id in the metadata.
PkToken(pid) == IF pid = 1 THEN "1" ELSE IF pid = 2 THEN "2" ELSE "3"

\* is_webhook_already_processed: event_type and webhook_id of a payload.
CacheEventType(pl) ==
    IF pl.event_type # Null THEN pl.event_type
    ELSE IF pl.type # Null THEN pl.type ELSE "unknown"

CacheWebhookId(pl) ==
    IF pl.id # Null THEN Tokens(pl.id)
    ELSE IF pl.checkout /\ pl.checkout_id # Null THEN Tokens(pl.checkout_id)
    ELSE IF pl.meta.order_code # Null /\ pl.meta.payment_id # 0
              /\ (pl.cmeta = "dict" \/ pl.tmeta = "dict" \/ pl.dmeta = "dict")
         THEN Tokens(pl.meta.order_code) \o <<PkToken(pl.meta.payment_id)>>
                  \o Tokens(CacheEventType(pl))
    ELSE <<ToString(pl)>>      \* md5 of the whole payload

\* A variant of WebhookCacheKey that leaves the event kind out of the key.
WebhookCacheKeyById(pl) ==
    <<"recurrente", "webhook", "processed">> \o CacheWebhookId(pl)

\* is_webhook_already_processed: the cache key of a payload,
\* f"recurrente_webhook_processed_{webhook_id}_{event_type}".
WebhookCacheKey(pl) ==
    <<"recurrente", "webhook", "processed">> \o CacheWebhookId(pl)
        \o Tokens(CacheEventType(pl))

\* ------------------------------------------------------------ payment info

\* The metadata (info_data) of a payment; as created by the provider it holds
\* the checkout id of the session it opened.
NoInfo ==
    [checkout_id |-> Null, payment_id |-> Null, payment_status |-> Null,
     status |-> Null, estado |-> Null, confirmed_at |-> FALSE,
     confirmation_error |-> FALSE, confirmed_by_webhook |-> FALSE,
     failure_reason |-> FALSE, full_webhook_payload |-> 0]

InitialInfo(p) == [NoInfo EXCEPT !.checkout_id = CheckoutId(p)]

\* info.update({...}) of the succeeded branch; the tenant endpoint also sets
\* estado and stores the whole payload (k).
WebhookSuccessInfo(info, checkout_id, payment_id, ep, k) ==
    IF ep = "event"
    THEN [info EXCEPT !.checkout_id = checkout_id, !.payment_id = payment_id,
                      !.payment_status = "completed",
                      !.estado = "Recibiendo confirmacion",
                      !.full_webhook_payload = k]
    ELSE [info EXCEPT !.checkout_id = checkout_id, !.payment_id = payment_id,
                      !.payment_status = "completed"]

\* info.update({...}) of the failed branch.
WebhookFailedInfo(info, checkout_id, payment_id) ==
    [info EXCEPT !.checkout_id = checkout_id, !.payment_id = payment_id,
                 !.payment_status = "failed", !.failure_reason = TRUE]

\* safe_confirm_payment: the fields written to payment.info_data before the
\* host confirm; param is the info dict handed in by the caller.
ConfirmInfo(info, param, payment_id) ==
    [info EXCEPT !.confirmed_at = TRUE, !.estado = "Confirmado",
                 !.status = "succeeded",
                 !.payment_id = IF payment_id # Null THEN payment_id ELSE @,
                 !.full_webhook_payload =
                     IF param.full_webhook_payload # 0
                     THEN param.full_webhook_payload ELSE @]

\* safe_confirm_payment: the indicators added after a successful confirm.
ConfirmedInfo(info) ==
    [info EXCEPT !.confirmed_by_webhook = TRUE, !.estado = "Confirmado"]

\* A variant of ConfirmErrorInfo that loses the error (what a handler that
\* swallowed the exception without recording it would store).
ConfirmErrorInfoLost(info) == info

\* safe_confirm_payment: the error recorded when the host confirm raised.
ConfirmErrorInfo(info) ==
    [info EXCEPT !.confirmation_error = TRUE, !.estado = "Error en confirmacion"]

\* info__icontains: the text of the stored info holds tok ('' is in any text).
InfoContains(info, tok) ==
    \/ tok = ""
    \/ tok \in {info.checkout_id, info.payment_id}
    \/ /\ info.full_webhook_payload # 0
       /\ tok \in {AllPayloads[info.full_webhook_payload].id,
                   AllPayloads[info.full_webhook_payload].checkout_id}

\* A variant of Confirmable that only excludes confirmed payments (what a
\* handler without the pending-or-created test would accept).
ConfirmableUnlessConfirmed(state) == state # "confirmed"

\* The state test of safe_confirm_payment (before and after taking the lock).
Confirmable(state) == state \in {"pending", "created"}

\* ------------------------------------------------------------------- state

VARIABLES
    pstate,      \* payment -> state (OrderPayment.state)
    pinfo,       \* payment -> metadata (OrderPayment.info)
    orderPaid,   \* the host's order-paid workflow has run for the order
    processed,   \* cache: keys recurrente_webhook_processed_*
    locks,       \* cache: keys recurrente_payment_confirmation_lock_<pk>
    evKeys,      \* settings keys of the event that hold a webhook secret
    orgKeys,     \* settings keys of the organizer that hold a webhook secret
    svix,        \* the svix verification library could be imported
    wk,          \* worker -> its delivery and its position in the handler
                 \*   (history: fresh = is_webhook_already_processed returned
                 \*   False; retry = the delivery follows a 5xx answer to the
                 \*   same notification)
    confirmOK,   \* payment -> successful host confirm() calls (history)
    nTrans       \* payment -> changes of its state (history)

vars == <<pstate, pinfo, orderPaid, processed, locks, evKeys, orgKeys, svix,
          wk, confirmOK, nTrans>>

\* The key the endpoints read, and the key the provider settings form writes
\* (SettingsSandbox('payment', 'recurrente', event), field webhook_secret).
EndpointSecretKey == "recurrente_webhook_secret"
FormSecretKey == "payment_recurrente_webhook_secret"

\* The settings as the organizer left them, and whether svix is installed:
\* no secret; a secret under the key the endpoints read, on the event or on
\* the organizer; that key without the svix library; a secret saved with the
\* provider settings form.
SettingsConfigs ==
    {<<{}, {}, TRUE>>, <<{EndpointSecretKey}, {}, TRUE>>,
     <<{}, {EndpointSecretKey}, TRUE>>, <<{EndpointSecretKey}, {}, FALSE>>,
     <<{FormSecretKey}, {}, TRUE>>}

\* The statistics a run of the periodic task returns (none yet).
NoReport == [events |-> -1, total |-> -1, updated |-> -1, errors |-> -1,
             confirmed |-> -1]

IdleWorker ==
    [pc |-> "idle", endpoint |-> "event", payload |-> 0, sig |-> TRUE,
     pay |-> 0, seen |-> Null, lstate |-> Null, linfo |-> NoInfo,
     param |-> NoInfo,
     resp |-> 0, ok |-> FALSE, dup |-> FALSE, raised |-> FALSE,
     fresh |-> FALSE, retry |-> FALSE, report |-> NoReport]

Init ==
    /\ pstate \in [Payments -> {"created", "pending"}]
    /\ pinfo = [p \in Payments |-> InitialInfo(p)]
    /\ orderPaid = FALSE
    /\ processed = {}
    /\ locks = {}
    /\ \E cfg \in SettingsConfigs :
          /\ evKeys = cfg[1]
          /\ orgKeys = cfg[2]
          /\ svix = cfg[3]
    /\ wk = [w \in Workers |-> IdleWorker]
    /\ confirmOK = [p \in Payments |-> 0]
    /\ nTrans = [p \in Payments |-> 0]

PayloadOf(w) == AllPayloads[wk[w].payload]
DataOf(w) == extract_recurrente_data(PayloadOf(w))

\* The worker answers with an HTTP status; its request-local objects die.
Respond(rec, code) ==
    [rec EXCEPT !.pc = "done", !.resp = code, !.lstate = Null,
                !.linfo = NoInfo, !.param = NoInfo]

\* payment.state = s; payment.save(): the row's state, counting real changes.
SetState(p, s) ==
    /\ pstate' = [pstate EXCEPT ![p] = s]
    /\ nTrans' = [nTrans EXCEPT ![p] = IF pstate[p] # s THEN @ + 1 ELSE @]

\* Webhook(secret).verify(body, headers) of the svix library.
SignatureRejected(secret, sig) == secret /\ svix /\ ~sig

\* The customer-facing views, which answer with a redirect to the order page.
Views == {"cancel", "update_status"}
Redirect == 302

\* The response when safe_confirm_payment returned success or failure.
ConfirmResponse(ep, success) ==
    IF ep \in Views THEN Redirect
    ELSE IF success THEN 200 ELSE IF ep = "event" THEN 500 ELSE 409

\* A variant of Dispatch without the final else: every kind goes on to the
\* payment search.
DispatchAll(rec, event_type) == [rec EXCEPT !.pc = "locate"]

\* Dispatch on the event kind once the order is known.
Dispatch(rec, event_type) ==
    IF event_type \in SucceededKinds \cup FailedKinds
    THEN [rec EXCEPT !.pc = "locate"]
    ELSE Respond(rec, 200)

\* ----------------------------------------------------------- record locator

\* .latest('created') of a set of payments (0: DoesNotExist).
Latest(S) == IF S = {} THEN 0 ELSE CHOOSE p \in S : \A q \in S : q <= p

\* The four-step search of the succeeded branch (and of the failed branch of
\* the global endpoint): by checkout id, by payment id, latest pending,
\* latest of the provider.
LocatePayment(checkout_id, payment_id) ==
    LET byCheckout == IF checkout_id # Null
                      THEN {p \in Payments : InfoContains(pinfo[p], checkout_id)}
                      ELSE {}
        byPayment == IF payment_id # Null
                     THEN {p \in Payments : InfoContains(pinfo[p], payment_id)}
                     ELSE {}
        pending == {p \in Payments : pstate[p] = "pending"}
    IN  IF byCheckout # {} THEN Latest(byCheckout)
        ELSE IF byPayment # {} THEN Latest(byPayment)
        ELSE IF pending # {} THEN Latest(pending)
        ELSE Latest(Payments)

\* The search of the failed branch of the tenant endpoint:
\* info__icontains=checkout_id if checkout_id else '', then latest pending.
LocateFailedTenant(checkout_id) ==
    LET tok == IF checkout_id # Null THEN checkout_id ELSE ""
        byCheckout == {p \in Payments : InfoContains(pinfo[p], tok)}
        pending == {p \in Payments : pstate[p] = "pending"}
    IN  IF byCheckout # {} THEN Latest(byCheckout) ELSE Latest(pending)

\* ----------------------------------------------------------------- actions

\* The gateway redelivers a notification it got a 5xx answer for: the
\* delivery arriving with payload k is such a redelivery.
Redelivery(w, k) ==
    \E v \in Workers \ {w} :
        /\ wk[v].pc = "done" /\ wk[v].resp >= 500
        /\ wk[v].payload = k

\* A delivery arrives.  Tenant endpoint: read the secret, verify the
\* signature, extract, require an order code.  Global endpoint: extract,
\* require the slugs and the order code.
ReceiveFrom(w, ids) ==
    /\ wk[w].pc = "idle"
    /\ \A v \in Workers : v < w => wk[v].pc # "idle"   \* workers are interchangeable
    /\ \E ep \in {"event", "global"}, k \in ids, sig \in BOOLEAN :
          LET data == extract_recurrente_data(AllPayloads[k])
              rec == [wk[w] EXCEPT !.endpoint = ep, !.payload = k, !.sig = sig,
                                   !.retry = Redelivery(w, k)]
              next ==
                  IF ep = "event"
                  THEN IF SignatureRejected(EndpointSecretKey \in evKeys, sig)
                       THEN Respond(rec, 401)
                       ELSE IF data.order_code = Null THEN Respond(rec, 400)
                       ELSE [rec EXCEPT !.pc = "dedup_get"]
                  ELSE IF Null \in {data.event_slug, data.organizer_slug, data.order_code}
                       THEN Respond(rec, 400)
                       ELSE [rec EXCEPT !.pc = "dedup_get"]
          IN  \* a signature is invalid only relative to some configured secret
              /\ (~sig => evKeys \cup orgKeys # {})
              /\ wk' = [wk EXCEPT ![w] = next]
    /\ UNCHANGED <<pstate, pinfo, orderPaid, processed, locks, evKeys, orgKeys,
                   svix, confirmOK, nTrans>>

Receive(w) == ReceiveFrom(w, PayloadIds)

\* is_webhook_already_processed, first half: cache.get(cache_key).
DedupGet(w) ==
    /\ wk[w].pc = "dedup_get"
    /\ wk' = [wk EXCEPT ![w] =
                IF WebhookCacheKey(PayloadOf(w)) \in processed
                THEN Respond([@ EXCEPT !.dup = TRUE], 200)
                ELSE [@ EXCEPT !.pc = "dedup_set"]]
    /\ UNCHANGED <<pstate, pinfo, orderPaid, processed, locks, evKeys, orgKeys,
                   svix, confirmOK, nTrans>>

\* is_webhook_already_processed, second half: cache.set(cache_key, True);
\* then the lookups that read no mutable state.  Tenant endpoint: the order.
\* Global endpoint: organizer and event, the secret, the signature, the order.
DedupSet(w) ==
    /\ wk[w].pc = "dedup_set"
    /\ processed' = processed \cup {WebhookCacheKey(PayloadOf(w))}
    /\ LET data == DataOf(w)
           rec == [wk[w] EXCEPT !.fresh = TRUE]
           secret == EndpointSecretKey \in evKeys \/ EndpointSecretKey \in orgKeys
           next ==
               IF rec.endpoint = "event"
               THEN IF data.order_code # OrderCode THEN Respond(rec, 404)
                    ELSE Dispatch(rec, data.event_type)
               ELSE IF data.organizer_slug # "t" \/ data.event_slug # "t"
                    THEN Respond(rec, 404)
                    ELSE IF SignatureRejected(secret, rec.sig) THEN Respond(rec, 401)
                    ELSE IF data.order_code # OrderCode THEN Respond(rec, 404)
                    ELSE Dispatch(rec, data.event_type)
       IN  wk' = [wk EXCEPT ![w] = next]
    /\ UNCHANGED <<pstate, pinfo, orderPaid, locks, evKeys, orgKeys, svix,
                   confirmOK, nTrans>>

\* A variant of AlreadyConfirmed that never takes the early exit.
NeverAlreadyConfirmed(state) == FALSE

\* if payment.state == PAYMENT_STATE_CONFIRMED: ... return True
AlreadyConfirmed(state) == state = "confirmed"

\* safe_confirm_payment, before the lock: the tests on the state of the
\* payment object the caller loaded (True when already confirmed, False
\* when not pending or created).
ConfirmEntry(rec) ==
    IF AlreadyConfirmed(rec.lstate)
    THEN Respond([rec EXCEPT !.ok = TRUE], ConfirmResponse(rec.endpoint, TRUE))
    ELSE IF ~Confirmable(rec.lstate)
         THEN Respond([rec EXCEPT !.ok = FALSE], ConfirmResponse(rec.endpoint, FALSE))
    ELSE [rec EXCEPT !.pc = "lock"]

\* The endpoint loads the payment the notification is attributed to.
\* Succeeded branch: an already confirmed payment is answered 200; the global
\* endpoint goes on to safe_confirm_payment, the tenant endpoint first saves
\* the info.  Failed branch: on to the write.
Locate(w) ==
    /\ wk[w].pc = "locate"
    /\ LET data == DataOf(w)
           checkout_id == EndpointCheckoutId(data)
           payment_id == EndpointPaymentId(data)
           failedTenant == data.event_type \in FailedKinds /\ wk[w].endpoint = "event"
           p == IF failedTenant THEN LocateFailedTenant(checkout_id)
                ELSE LocatePayment(checkout_id, payment_id)
           rec == IF p = 0 THEN wk[w]
                  ELSE [wk[w] EXCEPT !.pay = p, !.seen = pstate[p],
                                     !.lstate = pstate[p], !.linfo = pinfo[p]]
           next ==
               IF p = 0 THEN Respond(rec, 404)
               ELSE IF data.event_type \in FailedKinds THEN [rec EXCEPT !.pc = "fail_write"]
               ELSE IF rec.lstate = "confirmed" THEN Respond(rec, 200)
               ELSE IF rec.endpoint = "event" THEN [rec EXCEPT !.pc = "pre_save"]
               ELSE ConfirmEntry([rec EXCEPT !.param =
                        WebhookSuccessInfo(rec.linfo, checkout_id, payment_id,
                                           "global", rec.payload)])
       IN  wk' = [wk EXCEPT ![w] = next]
    /\ UNCHANGED <<pstate, pinfo, orderPaid, processed, locks, evKeys, orgKeys,
                   svix, confirmOK, nTrans>>

\* Tenant endpoint, succeeded branch: info.update({...}); payment.save(
\* update_fields=['info']); then safe_confirm_payment is entered.
PreSave(w) ==
    /\ wk[w].pc = "pre_save"
    /\ LET data == DataOf(w)
           info == WebhookSuccessInfo(wk[w].linfo, EndpointCheckoutId(data),
                                      EndpointPaymentId(data), "event", wk[w].payload)
       IN  /\ pinfo' = [pinfo EXCEPT ![wk[w].pay] = info]
           /\ wk' = [wk EXCEPT ![w] =
                        ConfirmEntry([@ EXCEPT !.linfo = info, !.param = info])]
    /\ UNCHANGED <<pstate, orderPaid, processed, locks, evKeys, orgKeys, svix,
                   confirmOK, nTrans>>

\* A variant of AlreadyFailed that never skips the write.
NeverAlreadyFailed(state) == FALSE

\* if payment.state != PAYMENT_STATE_FAILED: ... (negated)
AlreadyFailed(state) == state = "failed"

\* Failed branch: unless the loaded payment is already failed, write the
\* failure info and state = failed (save(update_fields=['state', 'info'])).
FailWrite(w) ==
    /\ wk[w].pc = "fail_write"
    /\ LET data == DataOf(w)
           p == wk[w].pay
       IN  IF ~AlreadyFailed(wk[w].lstate)
           THEN /\ pinfo' = [pinfo EXCEPT ![p] =
                               WebhookFailedInfo(wk[w].linfo, EndpointCheckoutId(data),
                                                 EndpointPaymentId(data))]
                /\ SetState(p, "failed")
           ELSE UNCHANGED <<pinfo, pstate, nTrans>>
    /\ wk' = [wk EXCEPT ![w] = Respond(@, 200)]
    /\ UNCHANGED <<orderPaid, processed, locks, evKeys, orgKeys, svix, confirmOK>>

\* cache.add(lock_key, "locked", timeout=30): set if absent.
LockFree(p) == p \notin locks

AcquireLock(w) ==
    /\ wk[w].pc = "lock"
    /\ IF LockFree(wk[w].pay)
       THEN /\ locks' = locks \cup {wk[w].pay}
            /\ wk' = [wk EXCEPT ![w].pc = "refresh"]
       ELSE /\ locks' = locks
            /\ wk' = [wk EXCEPT ![w].pc = "contended"]
    /\ UNCHANGED <<pstate, pinfo, orderPaid, processed, evKeys, orgKeys, svix,
                   confirmOK, nTrans>>

\* A variant of RereadResult that gives up without looking at the re-read
\* state.
RereadGivesUp(state) == FALSE

\* if payment.state == PAYMENT_STATE_CONFIRMED: return True; return False
RereadResult(state) == state = "confirmed"

\* The lock was held by someone else: sleep, refresh_from_db, and succeed
\* exactly when the payment is confirmed by now.
Contended(w) ==
    /\ wk[w].pc = "contended"
    /\ LET success == RereadResult(pstate[wk[w].pay])
       IN  wk' = [wk EXCEPT ![w] =
                    Respond([@ EXCEPT !.ok = success],
                            ConfirmResponse(@.endpoint, success))]
    /\ UNCHANGED <<pstate, pinfo, orderPaid, processed, locks, evKeys, orgKeys,
                   svix, confirmOK, nTrans>>

\* Under the lock: refresh_from_db and test the state again.
Refresh(w) ==
    /\ wk[w].pc = "refresh"
    /\ LET p == wk[w].pay
       IN  wk' = [wk EXCEPT ![w] =
                    [@ EXCEPT !.lstate = pstate[p], !.linfo = pinfo[p],
                              !.ok = FALSE,
                              !.pc = IF Confirmable(pstate[p]) THEN "save_info"
                                     ELSE "release"]]
    /\ UNCHANGED <<pstate, pinfo, orderPaid, processed, locks, evKeys, orgKeys,
                   svix, confirmOK, nTrans>>

\* The payment_id argument the caller hands to safe_confirm_payment: the
\* endpoints pass the id they extracted, the status view the id of the
\* payment object in the gateway's answer.
CallerPaymentId(w) ==
    IF wk[w].endpoint = "update_status" THEN ExternalId(wk[w].pay)
    ELSE EndpointPaymentId(DataOf(w))

\* Under the lock: the receipt fields, confirmed_at, estado 'Confirmado' and
\* status 'succeeded' are put into payment.info_data and saved, before the
\* host confirm is tried.
SaveInfo(w) ==
    /\ wk[w].pc = "save_info"
    /\ LET info == ConfirmInfo(wk[w].linfo, wk[w].param, CallerPaymentId(w))
       IN  /\ pinfo' = [pinfo EXCEPT ![wk[w].pay] = info]
           /\ wk' = [wk EXCEPT ![w] = [@ EXCEPT !.linfo = info, !.pc = "host_confirm"]]
    /\ UNCHANGED <<pstate, orderPaid, processed, locks, evKeys, orgKeys, svix,
                   confirmOK, nTrans>>

\* payment.confirm() and order.log_action(...) in one transaction: the host
\* confirms the payment and runs the order-paid workflow.
HostConfirm(w) ==
    /\ wk[w].pc = "host_confirm"
    /\ SetState(wk[w].pay, "confirmed")
    /\ confirmOK' = [confirmOK EXCEPT ![wk[w].pay] = @ + 1]
    /\ orderPaid' = TRUE
    /\ wk' = [wk EXCEPT ![w].pc = "post_ok"]
    /\ UNCHANGED <<pinfo, processed, locks, evKeys, orgKeys, svix>>

\* payment.confirm() raises (quota exhausted): the transaction is rolled back.
HostConfirmRaises(w) ==
    /\ wk[w].pc = "host_confirm"
    /\ wk' = [wk EXCEPT ![w] = [@ EXCEPT !.raised = TRUE, !.pc = "post_err"]]
    /\ UNCHANGED <<pstate, pinfo, orderPaid, processed, locks, evKeys, orgKeys,
                   svix, confirmOK, nTrans>>

\* After the confirm: refresh_from_db; when the payment is confirmed add the
\* confirmation indicators, save and succeed; otherwise fail.
AfterConfirm(w) ==
    /\ wk[w].pc = "post_ok"
    /\ LET p == wk[w].pay
       IN  /\ pinfo' = IF pstate[p] = "confirmed"
                       THEN [pinfo EXCEPT ![p] = ConfirmedInfo(@)]
                       ELSE pinfo
           /\ wk' = [wk EXCEPT ![w] =
                        [@ EXCEPT !.ok = (pstate[p] = "confirmed"), !.pc = "release"]]
    /\ UNCHANGED <<pstate, orderPaid, processed, locks, evKeys, orgKeys, svix,
                   confirmOK, nTrans>>

\* After the confirm raised: refresh_from_db, record the error in the info,
\* save, and fail.
AfterConfirmError(w) ==
    /\ wk[w].pc = "post_err"
    /\ pinfo' = [pinfo EXCEPT ![wk[w].pay] = ConfirmErrorInfo(@)]
    /\ wk' = [wk EXCEPT ![w] = [@ EXCEPT !.ok = FALSE, !.pc = "release"]]
    /\ UNCHANGED <<pstate, orderPaid, processed, locks, evKeys, orgKeys, svix,
                   confirmOK, nTrans>>

\* A variant of LockDeleted that leaves the key in the cache (what an exit
\* path without the finally would do).
LockKept(p) == locks

\* cache.delete(lock_key): the cache without the payment's lock key.
LockDeleted(p) == locks \ {p}

\* finally: cache.delete(lock_key); safe_confirm_payment returns and the
\* endpoint answers.
ReleaseLock(w) ==
    /\ wk[w].pc = "release"
    /\ locks' = LockDeleted(wk[w].pay)
    /\ wk' = [wk EXCEPT ![w] = Respond(@, ConfirmResponse(@.endpoint, @.ok))]
    /\ UNCHANGED <<pstate, pinfo, orderPaid, processed, evKeys, orgKeys, svix,
                   confirmOK, nTrans>>

\* A variant of LockTimedOut for a key stored without a timeout.
LockNeverTimedOut(p) == locks

\* timeout=30 of cache.add: the cache once the key's 30 s have passed.
LockTimedOut(p) == locks \ {p}

\* The cache drops a lock key whose timeout (30 s) has passed.
LockExpires ==
    /\ \E p \in locks : locks' = LockTimedOut(p)
    /\ UNCHANGED <<pstate, pinfo, orderPaid, processed, evKeys, orgKeys, svix,
                   wk, confirmOK, nTrans>>

Next ==
    \/ \E w \in Workers :
          \/ Receive(w)
          \/ DedupGet(w)
          \/ DedupSet(w)
          \/ Locate(w)
          \/ PreSave(w)
          \/ FailWrite(w)
          \/ AcquireLock(w)
          \/ Contended(w)
          \/ Refresh(w)
          \/ SaveInfo(w)
          \/ HostConfirm(w)
          \/ HostConfirmRaises(w)
          \/ AfterConfirm(w)
          \/ AfterConfirmError(w)
          \/ ReleaseLock(w)
    \/ LockExpires

Spec == Init /\ [][Next]_vars

\* ------------------------------------------------- holders that crash

\* The process of a worker that holds a confirmation lock dies (killed, out
\* of memory, power loss): no finally clause runs, the key stays in the cache.
Crash(w) ==
    /\ wk[w].pc \in {"refresh", "save_info", "host_confirm", "post_ok",
                     "post_err", "release"}
    /\ wk' = [wk EXCEPT ![w].pc = "crashed"]
    /\ UNCHANGED <<pstate, pinfo, orderPaid, processed, locks, evKeys, orgKeys,
                   svix, confirmOK, nTrans>>

\* An event without a webhook secret whose order has only Pending payments.
InitPending ==
    /\ Init
    /\ pstate = [p \in Payments |-> "pending"]
    /\ evKeys = {} /\ orgKeys = {} /\ svix

NextCrash == Next \/ \E w \in Workers : Crash(w)

\* Time passes: a key whose timeout has passed is eventually dropped by the
\* cache.  Nothing else is forced to happen.
SpecCrash ==
    /\ InitPending
    /\ [][NextCrash]_vars
    /\ WF_vars(LockExpires)

\* ------------------------------------------------------------- audit log

\* The 'pretix.plugins.recurrente.payment.confirmed' entries of the order's
\* log for payment p: order.log_action(...) runs in the transaction of
\* payment.confirm() and nowhere else, one entry per confirm that went
\* through.
AuditEntries(p) == confirmOK[p]

\* ---------------------------------------- correlation by checkout id

\* A delivery of one of the notifications correlated by checkout id arrives.
ReceiveCorrelated(w) == ReceiveFrom(w, CorrelationPayloadIds)

NextLocator == Next \/ \E w \in Workers : ReceiveCorrelated(w)

SpecLocator == InitPending /\ [][NextLocator]_vars

\* --------------------------------------------- kinds normalized to failed

\* A delivery of one of the notifications normalized to 'failed' arrives.
ReceiveKinds(w) == ReceiveFrom(w, KindPayloadIds)

NextKinds == Next \/ \E w \in Workers : ReceiveKinds(w)

SpecKinds == InitPending /\ [][NextKinds]_vars

\* ------------------------------------------------- payloads of other shapes

\* A delivery of one of the notifications of another shape arrives.
ReceiveShapes(w) == ReceiveFrom(w, ShapePayloadIds)

NextShapes == Next \/ \E w \in Workers : ReceiveShapes(w)

SpecShapes == InitPending /\ [][NextShapes]_vars

\* ------------------------------------------------ customer-facing views

\* cancel: the payment of the order whose info holds the checkout_id of the
\* request, else the latest pending payment (0: none).
CancelLocate(checkout_id) ==
    LET byCheckout == IF checkout_id # Null
                      THEN {p \in Payments : InfoContains(pinfo[p], checkout_id)}
                      ELSE {}
        pending == {p \in Payments : pstate[p] = "pending"}
    IN  IF byCheckout # {} THEN Latest(byCheckout) ELSE Latest(pending)

\* cancel, first half: the customer comes back from the gateway on the
\* cancel URL (?order=<code>, with or without a checkout_id); the payment is
\* loaded and its state is tested.
CancelLoad(w) ==
    /\ wk[w].pc = "idle"
    /\ \A v \in Workers : v < w => wk[v].pc # "idle"
    /\ \E checkout_id \in {Null} \cup {CheckoutId(p) : p \in Payments} :
          LET p == CancelLocate(checkout_id)
              rec == IF p = 0 THEN [wk[w] EXCEPT !.endpoint = "cancel"]
                     ELSE [wk[w] EXCEPT !.endpoint = "cancel", !.pay = p,
                                        !.seen = pstate[p], !.lstate = pstate[p],
                                        !.linfo = pinfo[p]]
          IN  wk' = [wk EXCEPT ![w] =
                       IF p # 0 /\ rec.lstate = "pending"
                       THEN [rec EXCEPT !.pc = "cancel_write"]
                       ELSE Respond(rec, Redirect)]
    /\ UNCHANGED <<pstate, pinfo, orderPaid, processed, locks, evKeys, orgKeys,
                   svix, confirmOK, nTrans>>

\* cancel, second half: info.update({...}); payment.state = FAILED;
\* payment.save(update_fields=['state', 'info']).
CancelWrite(w) ==
    /\ wk[w].pc = "cancel_write"
    /\ pinfo' = [pinfo EXCEPT ![wk[w].pay] =
                    [wk[w].linfo EXCEPT !.payment_status = "failed",
                                        !.failure_reason = TRUE]]
    /\ SetState(wk[w].pay, "failed")
    /\ wk' = [wk EXCEPT ![w] = Respond(@, Redirect)]
    /\ UNCHANGED <<orderPaid, processed, locks, evKeys, orgKeys, svix, confirmOK>>

\* update_payment_status: the payment named by ?payment=<pk> (byId), in
\* whatever state it is, or else the order's latest pending payment (with
\* refresh=1 its latest confirmed payment first).
StatusLocate(byId, refresh) ==
    LET confirmed == {p \in Payments : pstate[p] = "confirmed"}
        pending == {p \in Payments : pstate[p] = "pending"}
    IN  IF byId # 0 THEN byId
        ELSE IF refresh /\ confirmed # {} THEN Latest(confirmed)
        ELSE Latest(pending)

\* update_payment_status, first part: load the payment.  With refresh=1 and
\* a confirmed payment the receipt data are fetched; otherwise the checkout
\* named in the info is looked up at the gateway.
StatusLoad(w) ==
    /\ wk[w].pc = "idle"
    /\ \A v \in Workers : v < w => wk[v].pc # "idle"
    /\ \E byId \in Payments \cup {0}, refresh \in BOOLEAN :
          LET p == StatusLocate(byId, refresh)
              rec == IF p = 0 THEN [wk[w] EXCEPT !.endpoint = "update_status"]
                     ELSE [wk[w] EXCEPT !.endpoint = "update_status", !.pay = p,
                                        !.seen = pstate[p], !.lstate = pstate[p],
                                        !.linfo = pinfo[p]]
          IN  wk' = [wk EXCEPT ![w] =
                       IF p = 0 THEN Respond(rec, Redirect)
                       ELSE IF refresh /\ rec.lstate = "confirmed"
                            THEN [rec EXCEPT !.pc = "status_refresh"]
                       ELSE IF rec.linfo.checkout_id = Null
                            THEN Respond(rec, Redirect)
                       ELSE [rec EXCEPT !.pc = "status_api"]]
    /\ UNCHANGED <<pstate, pinfo, orderPaid, processed, locks, evKeys, orgKeys,
                   svix, confirmOK, nTrans>>

\* update_payment_status, refresh of a confirmed payment: when the receipt
\* page or the API gave data, the info as loaded is saved again with the
\* receipt fields (which are not part of the modelled info).
StatusRefresh(w) ==
    /\ wk[w].pc = "status_refresh"
    /\ \E gotData \in BOOLEAN :
          pinfo' = IF gotData THEN [pinfo EXCEPT ![wk[w].pay] = wk[w].linfo]
                   ELSE pinfo
    /\ wk' = [wk EXCEPT ![w] = Respond(@, Redirect)]
    /\ UNCHANGED <<pstate, orderPaid, processed, locks, evKeys, orgKeys, svix,
                   confirmOK, nTrans>>

\* What the gateway's API may say about a checkout: a paid status (with the
\* payment object), a failed / canceled / expired status, any other status,
\* or no usable answer.
ApiAnswers == {"succeeded", "failed", "pending", "error"}

\* update_payment_status, second part: the answer of the gateway.  On a 200
\* answer the info is updated and saved; a failed status is written to the
\* payment; a paid status leads to safe_confirm_payment.
StatusApi(w) ==
    /\ wk[w].pc = "status_api"
    /\ \E st \in ApiAnswers :
          LET p == wk[w].pay
              info == [wk[w].linfo EXCEPT
                          !.payment_status = st,
                          !.payment_id = IF st = "succeeded" THEN ExternalId(p) ELSE @]
          IN  IF st = "error"
              THEN /\ wk' = [wk EXCEPT ![w] = Respond(@, Redirect)]
                   /\ UNCHANGED <<pinfo, pstate, nTrans>>
              ELSE /\ pinfo' = [pinfo EXCEPT ![p] = info]
                   /\ IF st = "failed"
                      THEN /\ SetState(p, "failed")
                           /\ wk' = [wk EXCEPT ![w] = Respond(@, Redirect)]
                      ELSE /\ UNCHANGED <<pstate, nTrans>>
                           /\ wk' = [wk EXCEPT ![w] =
                                       IF st = "succeeded"
                                       THEN [@ EXCEPT !.linfo = info, !.param = info,
                                                      !.pc = "status_confirm"]
                                       ELSE Respond(@, Redirect)]
    /\ UNCHANGED <<orderPaid, processed, locks, evKeys, orgKeys, svix, confirmOK>>

\* update_payment_status, paid status: safe_confirm_payment(payment, info,
\* payment_id, logger) is entered with the payment object as loaded.
StatusConfirm(w) ==
    /\ wk[w].pc = "status_confirm"
    /\ wk' = [wk EXCEPT ![w] = ConfirmEntry(@)]
    /\ UNCHANGED <<pstate, pinfo, orderPaid, processed, locks, evKeys, orgKeys,
                   svix, confirmOK, nTrans>>

NextViews ==
    \/ Next
    \/ \E w \in Workers :
          \/ CancelLoad(w)
          \/ CancelWrite(w)
          \/ StatusLoad(w)
          \/ StatusRefresh(w)
          \/ StatusApi(w)
          \/ StatusConfirm(w)

\* Webhook deliveries and customer requests, interleaved.
SpecViews == InitPending /\ [][NextViews]_vars

\* ---------------------------------------------------------- periodic task

\* A variant of PeriodicStates that reconciles: what a task that looked up
\* the pending payments and gave up on them would leave.
PeriodicStatesReconciled(states) ==
    [p \in Payments |-> IF states[p] = "pending" THEN "failed" ELSE states[p]]

\* update_pending_payments returns before it reads or writes any payment:
\* the states of the payments after a run.
PeriodicStates(states) == states

\* The dict update_pending_payments returns.
update_pending_payments ==
    [events |-> 0, total |-> 0, updated |-> 0, errors |-> 0, confirmed |-> 0]

\* The host sends periodic_task and the receiver runs.
PeriodicTask(w) ==
    /\ wk[w].pc = "idle"
    /\ \A v \in Workers : v < w => wk[v].pc # "idle"
    /\ wk' = [wk EXCEPT ![w] = [@ EXCEPT !.endpoint = "periodic", !.pc = "done",
                                          !.report = update_pending_payments]]
    /\ pstate' = PeriodicStates(pstate)
    /\ UNCHANGED <<pinfo, orderPaid, processed, locks, evKeys, orgKeys, svix,
                   confirmOK, nTrans>>

NextPeriodic == NextViews \/ \E w \in Workers : PeriodicTask(w)

\* Webhook deliveries, customer requests and runs of the periodic task.
SpecPeriodic == InitPending /\ [][NextPeriodic]_vars

\* ------------------------------------------------------------- properties

Done(w) == wk[w].pc = "done"

\* w's delivery is the only one that has arrived.
Alone(w) == \A v \in Workers \ {w} : wk[v].pc = "idle"

KindOf(w) == PayloadOf(w).event_type

\* The payment the notification's metadata names (0: none).
NamedPayment(w) ==
    IF DataOf(w).order_code = OrderCode /\ DataOf(w).payment_id_pretix \in Payments
    THEN DataOf(w).payment_id_pretix ELSE 0

\* w's notification names the order and has a kind the endpoints handle.
Handled(w) ==
    /\ wk[w].pc # "idle"
    /\ DataOf(w).order_code = OrderCode
    /\ KindOf(w) \in SucceededKinds \cup FailedKinds

\* Payments whose state has changed / that the host has confirmed.
Changed == {p \in Payments : nTrans[p] > 0}
HostConfirmed == {p \in Payments : confirmOK[p] > 0}

\* C1: when the same notification (same fingerprint) is delivered twice, with
\* a signature that verifies and a host confirm that does not raise, both
\* deliveries are answered 200 and exactly one payment changes state, once.
C1_Idempotent ==
    \A w1, w2 \in Workers :
        ( /\ w1 # w2 /\ Done(w1) /\ Done(w2)
          /\ Handled(w1) /\ Handled(w2)
          /\ WebhookCacheKey(PayloadOf(w1)) = WebhookCacheKey(PayloadOf(w2))
          /\ wk[w1].sig /\ wk[w2].sig
          /\ ~wk[w1].raised /\ ~wk[w2].raised )
        => /\ wk[w1].resp = 200 /\ wk[w2].resp = 200
           /\ Cardinality(Changed) = 1
           /\ \A p \in Payments : nTrans[p] <= 1

\* C2: when two confirm attempts were made for the same payment, found
\* Pending by both, the host confirm has succeeded at most once for it, and
\* exactly once when both attempts have returned and none raised.
C2_SingleHostConfirm ==
    \A w1, w2 \in Workers :
        ( /\ w1 # w2
          /\ wk[w1].pc # "idle" /\ wk[w2].pc # "idle"
          /\ KindOf(w1) \in SucceededKinds /\ KindOf(w2) \in SucceededKinds
          /\ wk[w1].pay # 0 /\ wk[w1].pay = wk[w2].pay
          /\ wk[w1].seen = "pending" /\ wk[w2].seen = "pending" )
        => /\ confirmOK[wk[w1].pay] <= 1
           /\ (Done(w1) /\ Done(w2) /\ ~wk[w1].raised /\ ~wk[w2].raised)
                 => confirmOK[wk[w1].pay] = 1

\* C3: a failed/expired notification that resolved to a payment it found
\* Confirmed leaves that payment Confirmed.
C3_ConfirmedAbsorbs ==
    \A w \in Workers :
        ( /\ Done(w) /\ wk[w].pay # 0
          /\ KindOf(w) \in FailedKinds
          /\ wk[w].seen = "confirmed" )
        => pstate[wk[w].pay] = "confirmed"

\* C4: no step of the handling of a succeeded notification that resolved to
\* a payment it found Failed changes a payment's state or has the host
\* confirm succeed.
C4_FailedAbsorbs ==
    [][ \A w \in Workers :
          ( /\ wk'[w] # wk[w]
            /\ wk[w].pc # "idle"
            /\ KindOf(w) \in SucceededKinds
            /\ wk[w].seen = "failed" )
          => /\ pstate' = pstate
             /\ confirmOK' = confirmOK
             /\ wk'[w].pc \notin {"lock", "refresh", "save_info", "host_confirm"} ]_vars

\* C4's case: a succeeded notification resolved to a Failed payment, was
\* refused, and the payment is still Failed.
C4_Witness ==
    \E w \in Workers :
        /\ Done(w) /\ wk[w].pay # 0
        /\ KindOf(w) \in SucceededKinds
        /\ wk[w].seen = "failed"
        /\ wk[w].resp \in {500, 409}
        /\ pstate[wk[w].pay] = "failed"
        /\ confirmOK[wk[w].pay] = 0

\* C5: with a webhook secret saved through the provider settings form, a
\* delivery whose signature does not verify, handled alone, is answered 401
\* and no payment has changed state.
C5_SignatureEnforced ==
    \A w \in Workers :
        ( /\ FormSecretKey \in evKeys
          /\ Done(w) /\ Alone(w) /\ Handled(w)
          /\ ~wk[w].sig )
        => /\ wk[w].resp = 401
           /\ Changed = {}

\* C6: after the tenant endpoint has handled, alone, with a signature that
\* verifies and a host confirm that does not raise, a succeeded notification
\* naming a Pending payment of the
\* order, the response is 200, that payment is Confirmed and the order-paid
\* workflow has run exactly once.
C6_SucceededConfirmsNamed ==
    \A w \in Workers :
        ( /\ Done(w) /\ Alone(w) /\ Handled(w)
          /\ wk[w].endpoint = "event"
          /\ KindOf(w) = "payment_intent.succeeded"
          /\ NamedPayment(w) # 0
          /\ wk[w].sig /\ ~wk[w].raised )
        => \/ pstate[NamedPayment(w)] = "created"      \* it was not Pending
           \/ /\ wk[w].resp = 200
              /\ pstate[NamedPayment(w)] = "confirmed"
              /\ orderPaid
              /\ HostConfirmed = {NamedPayment(w)}
              /\ confirmOK[NamedPayment(w)] = 1

\* C7: after the tenant endpoint has handled, alone and with a signature
\* that verifies, a payment.failed notification naming a Pending payment of the order, the response is 200,
\* that payment is Failed and the order-paid workflow has not run.
C7_FailedFailsNamed ==
    \A w \in Workers :
        ( /\ Done(w) /\ Alone(w) /\ Handled(w)
          /\ wk[w].endpoint = "event"
          /\ KindOf(w) = "payment.failed"
          /\ NamedPayment(w) # 0
          /\ wk[w].sig )
        => \/ pstate[NamedPayment(w)] = "created"      \* it was not Pending
           \/ /\ wk[w].resp = 200
              /\ pstate[NamedPayment(w)] = "failed"
              /\ ~orderPaid
              /\ HostConfirmed = {}

\* C8: after the tenant endpoint has handled, alone and with answer 200, a
\* succeeded or failed notification with top-level id X, the info of the
\* payment it resolved to has payment_id = X and status = the outcome.
C8_InfoRecordsOutcome ==
    \A w \in Workers :
        ( /\ Done(w) /\ Alone(w) /\ Handled(w)
          /\ wk[w].endpoint = "event"
          /\ wk[w].pay # 0
          /\ wk[w].resp = 200 )
        => /\ pinfo[wk[w].pay].payment_id = PayloadOf(w).id
           /\ pinfo[wk[w].pay].status =
                 IF KindOf(w) \in SucceededKinds THEN "succeeded" ELSE "failed"

\* C9: a delivery during which the host confirm raised (quota exhausted) is
\* answered 200.
C9_QuotaAnswered200 ==
    \A w \in Workers : (Done(w) /\ wk[w].raised) => wk[w].resp = 200

\* C10: when the host confirm raises inside safe_confirm_payment, the raise
\* and the error handling leave every payment's state as it was, the error
\* handling records the error in the payment's info, and the call returns
\* False (the endpoint then answers with an error status).
C10_ConfirmRaiseHandled ==
    [][ \A w \in Workers :
          /\ (wk[w].pc = "host_confirm" /\ wk'[w].pc = "post_err")
                => /\ pstate' = pstate
                   /\ confirmOK' = confirmOK
          /\ (wk[w].pc = "post_err" /\ wk'[w].pc # "post_err")
                => /\ pstate' = pstate
                   /\ pinfo'[wk[w].pay].confirmation_error
                   /\ ~wk'[w].ok
          /\ (wk[w].pc = "release" /\ wk[w].raised /\ wk'[w].pc = "done")
                => /\ pstate' = pstate
                   /\ ~wk'[w].ok
                   /\ wk'[w].resp # 200 ]_vars

\* C10's case: the host confirm raised, the call returned False, the error
\* is in the info and the payment is still Pending or Created.
C10_Witness ==
    \E w \in Workers :
        /\ Done(w) /\ wk[w].raised /\ ~wk[w].ok
        /\ pinfo[wk[w].pay].confirmation_error
        /\ Confirmable(pstate[wk[w].pay])

\* The fingerprint of w's notification is in the duplicate cache.
Fingerprinted(w) == WebhookCacheKey(PayloadOf(w)) \in processed

\* C11: after a delivery, handled alone, was answered 401, 404 or 5xx, the
\* duplicate cache holds no fingerprint of its notification.
C11_FingerprintOnlyOnSuccess ==
    \A w \in Workers :
        ( /\ Done(w) /\ Alone(w)
          /\ (wk[w].resp \in {401, 404} \/ wk[w].resp >= 500) )
        => ~Fingerprinted(w)

\* C12: the redelivery of a succeeded notification, made after a delivery of
\* it that found the payment Pending was answered 5xx, is not acknowledged as
\* a duplicate.
C12_RedeliveryProcessed ==
    \A w \in Workers :
        ( /\ Done(w) /\ wk[w].retry
          /\ KindOf(w) \in SucceededKinds
          /\ \E v \in Workers \ {w} :
                /\ Done(v) /\ wk[v].resp >= 500
                /\ wk[v].payload = wk[w].payload
                /\ wk[v].seen = "pending" )
        => ~wk[w].dup

\* C13: of two deliveries with the same fingerprint, at most one has obtained
\* 'not duplicate' (False) from is_webhook_already_processed.
C13_AtomicCheckAndSet ==
    \A w1, w2 \in Workers :
        ( /\ w1 # w2
          /\ wk[w1].pc # "idle" /\ wk[w2].pc # "idle"
          /\ WebhookCacheKey(PayloadOf(w1)) = WebhookCacheKey(PayloadOf(w2)) )
        => ~(wk[w1].fresh /\ wk[w2].fresh)

\* The positions of safe_confirm_payment between taking the lock and the
\* finally clause.
UnderLock == {"refresh", "save_info", "host_confirm", "post_ok", "post_err"}

PaymentsOfCheckout(w) ==
    {p \in Payments : PayloadOf(w).checkout /\ CheckoutId(p) = PayloadOf(w).checkout_id}

\* C15: a notification that carries a checkout id stored with a payment of
\* the order, and no order code, handled alone with a signature that
\* verifies, has been processed on that payment.
C15_CheckoutIdCorrelation ==
    \A w \in Workers :
        ( /\ Done(w) /\ Alone(w) /\ wk[w].sig
          /\ DataOf(w).order_code = Null
          /\ PaymentsOfCheckout(w) # {} )
        => /\ wk[w].pay \in PaymentsOfCheckout(w)
           /\ wk[w].resp = 200

\* None of the metadata paths extraction knows is present in the payload.
NoMetadataPaths(pl) == pl.cmeta = "absent" /\ pl.tmeta = "absent"

\* C16: for a payload without any metadata path, extraction yields a null
\* order code, and every step of the delivery's handling (once the tenant
\* endpoint's signature check, which precedes extraction, has passed) ends
\* it with answer 400, leaving payments and duplicate cache unchanged.
C16_GracefulDegradation ==
    [][ \A w \in Workers :
          ( /\ wk'[w] # wk[w]
            /\ wk'[w].payload # 0
            /\ NoMetadataPaths(AllPayloads[wk'[w].payload]) )
          => /\ extract_recurrente_data(AllPayloads[wk'[w].payload]).order_code = Null
             /\ pstate' = pstate /\ pinfo' = pinfo /\ processed' = processed
             /\ wk'[w].pc = "done"
             /\ \/ wk'[w].resp = 400
                \/ /\ wk'[w].resp = 401
                   /\ wk'[w].endpoint = "event"
                   /\ SignatureRejected(EndpointSecretKey \in evKeys, wk'[w].sig) ]_vars

\* C16's case: a payload without metadata was answered 400 and the duplicate
\* cache is still empty.
C16_Witness ==
    \E w \in Workers :
        /\ Done(w) /\ NoMetadataPaths(PayloadOf(w))
        /\ wk[w].resp = 400
        /\ processed = {}
        /\ Changed = {}

\* C17: with no webhook secret on the event or the organizer, a succeeded
\* notification naming a Pending payment, handled alone by either endpoint
\* without the host confirm raising, is not rejected: it is answered 200 and
\* that payment is Confirmed.
C17_NoSecretPermissive ==
    \A w \in Workers :
        ( /\ evKeys = {} /\ orgKeys = {}
          /\ Done(w) /\ Alone(w) /\ Handled(w)
          /\ KindOf(w) \in SucceededKinds
          /\ NamedPayment(w) # 0
          /\ ~wk[w].raised )
        => \/ pstate[NamedPayment(w)] = "created"      \* it was not Pending
           \/ /\ wk[w].resp = 200
              /\ pstate[NamedPayment(w)] = "confirmed"

\* The endpoint rejects the delivery's signature.
Rejected(ep, sig) ==
    SignatureRejected(\/ EndpointSecretKey \in evKeys
                      \/ ep = "global" /\ EndpointSecretKey \in orgKeys, sig)

\* w's notification names the order and has a kind no branch handles.
Unrecognized(rec) ==
    /\ rec.payload # 0
    /\ extract_recurrente_data(AllPayloads[rec.payload]).order_code = OrderCode
    /\ AllPayloads[rec.payload].event_type \notin SucceededKinds \cup FailedKinds

\* C18: no step of the handling of a notification with an unrecognized kind
\* that names the order changes the state or the info of a payment, and the
\* delivery, unless its signature is rejected, is answered 200.
C18_UnrecognizedIgnored ==
    [][ \A w \in Workers :
          (wk'[w] # wk[w] /\ Unrecognized(wk'[w]))
          => /\ pstate' = pstate /\ pinfo' = pinfo
             /\ confirmOK' = confirmOK /\ orderPaid' = orderPaid
             /\ wk'[w].pc = "done"
                   => \/ wk'[w].resp = 200
                      \/ /\ wk'[w].resp = 401
                         /\ Rejected(wk'[w].endpoint, wk'[w].sig) ]_vars

\* C18's case: a notification with an unrecognized kind went through the
\* duplicate check and the order lookup and was answered 200.
C18_Witness ==
    \E w \in Workers :
        /\ Done(w) /\ Unrecognized(wk[w])
        /\ wk[w].fresh /\ ~wk[w].dup
        /\ wk[w].resp = 200
        /\ Changed = {}

\* C19: every answer of the endpoints has a status in {200, 400, 401, 404,
\* 500}.
C19_StatusCodes ==
    \A w \in Workers : Done(w) => wk[w].resp \in {200, 400, 401, 404, 500}

\* C20: a call of safe_confirm_payment that took the lock and whose re-read
\* showed the payment already Confirmed returns True.
C20_RereadConfirmedSucceeds ==
    \A w \in Workers :
        ( /\ wk[w].pc = "release"
          /\ wk[w].lstate = "confirmed"
          /\ ~wk[w].raised )
        => wk[w].ok

\* w is between taking the lock of payment p and releasing it.
InCriticalSection(w, p) ==
    wk[w].pc \in UnderLock \cup {"release"} /\ wk[w].pay = p

\* C21: every step of the handling of a succeeded notification that changes
\* the info or the state of the payment it resolved to is taken while the
\* handler is between taking that payment's lock and releasing it, with the
\* lock key in the cache.
C21_WritesUnderLock ==
    [][ \A w \in Workers :
          ( /\ wk'[w] # wk[w]
            /\ wk[w].pc # "idle" /\ wk[w].pay # 0
            /\ KindOf(w) \in SucceededKinds
            /\ \/ pinfo'[wk[w].pay] # pinfo[wk[w].pay]
               \/ pstate'[wk[w].pay] # pstate[wk[w].pay] )
          => /\ wk[w].pc \in UnderLock
             /\ wk[w].pay \in locks ]_vars

\* C22: at no time are two callers both between taking and releasing the
\* lock of the same payment.
C22_MutualExclusion ==
    \A w1, w2 \in Workers : \A p \in Payments :
        (InCriticalSection(w1, p) /\ InCriticalSection(w2, p)) => w1 = w2

\* The lock key of p is in the cache, left by a holder that crashed, and no
\* live caller is in its critical section.
StaleLock(p) ==
    /\ p \in locks
    /\ \E w \in Workers : wk[w].pc = "crashed" /\ wk[w].pay = p
    /\ \A w \in Workers : ~InCriticalSection(w, p)

C24_ContendedPath ==
    [][\A w \in Workers :
          (wk[w].pc = "contended" /\ wk'[w].pc # "contended") =>
              /\ wk'[w].pc = "done"
              /\ wk'[w].ok = (pstate[wk[w].pay] = "confirmed")
              /\ pstate' = pstate
              /\ pinfo' = pinfo
              /\ confirmOK' = confirmOK
              /\ orderPaid' = orderPaid
              /\ locks' = locks]_vars

\* A caller that loaded the payment pending has returned success although the
\* one host confirm was made by the other caller, which still holds the lock.
C24_Witness ==
    \E w, v \in Workers, p \in Payments :
        /\ w # v
        /\ Done(w) /\ wk[w].pay = p /\ wk[w].seen = "pending" /\ wk[w].ok
        /\ wk[v].pc = "release" /\ wk[v].pay = p /\ wk[v].ok
        /\ p \in locks
        /\ confirmOK[p] = 1

\* C25: safe_confirm_payment entered with a payment object that is already
\* confirmed returns success at once and does nothing: the lock is not
\* taken, the payment (state and info) is not written, the host confirm is
\* not invoked and, with it, no 'payment confirmed' log entry is made.
C25_ConfirmedIsNoOp ==
    [][\A w \in Workers :
          (/\ wk[w].pc = "status_confirm"
           /\ wk[w].lstate = "confirmed"
           /\ wk'[w] # wk[w]) =>
              /\ wk'[w].pc = "done"
              /\ wk'[w].ok
              /\ locks' = locks
              /\ pstate' = pstate
              /\ pinfo' = pinfo
              /\ confirmOK' = confirmOK
              /\ orderPaid' = orderPaid]_vars

\* The status view loaded a confirmed payment, the gateway reported it paid,
\* and safe_confirm_payment returned success.
C25_Witness ==
    \E w \in Workers :
        /\ Done(w) /\ wk[w].endpoint = "update_status"
        /\ wk[w].seen = "confirmed" /\ wk[w].ok
        /\ pstate[wk[w].pay] = "confirmed"

\* A step in which a customer-facing view writes the payment it loaded.
ViewWrites(w) ==
    /\ wk[w].endpoint \in Views
    /\ wk[w].pc \in {"cancel_write", "status_api"}
    /\ wk'[w].pc # wk[w].pc

\* C26: the cancel redirect and the status-update view never move a payment
\* out of confirmed: when every other request is a webhook delivery (so that
\* a webhook delivery confirmed the payment), a payment whose stored state is
\* confirmed when one of the views writes is still confirmed after the write.
C26_ViewsKeepConfirmed ==
    [][\A w \in Workers :
          (/\ ViewWrites(w)
           /\ \A v \in Workers \ {w} : wk[v].endpoint \notin Views
           /\ pstate[wk[w].pay] = "confirmed") =>
              pstate'[wk[w].pay] = "confirmed"]_vars

\* C27: when a notification's metadata names an internal payment id P of the
\* resolved order, the payment the endpoint has located is P, whatever other
\* payments the order has.
C27_LocatedByInternalId ==
    \A w \in Workers :
        ( /\ wk[w].payload # 0
          /\ wk[w].pay # 0
          /\ NamedPayment(w) # 0 )
        => wk[w].pay = NamedPayment(w)

\* The payments whose stored info holds the checkout id w's notification
\* carries.
StoredCheckout(w) ==
    {p \in Payments : /\ PayloadOf(w).checkout
                      /\ InfoContains(pinfo[p], PayloadOf(w).checkout_id)}

\* C28: for a notification that names the order, carries a checkout id and
\* no internal payment id, the search locates a payment that has this
\* checkout id stored in its info whenever there is one, even if a newer
\* pending payment exists.
C28_LocatedByCheckoutId ==
    [][\A w \in Workers :
          ( /\ wk[w].pc = "locate"
            /\ wk'[w].pc # "locate"
            /\ DataOf(w).order_code = OrderCode
            /\ DataOf(w).payment_id_pretix = 0
            /\ StoredCheckout(w) # {} )
          => wk'[w].pay \in StoredCheckout(w)]_vars

\* C29: a notification for the checkout of one payment, handled alone, has
\* changed the state of no other payment of the order.
C29_NoMisattribution ==
    \A w \in Workers :
        ( /\ wk[w].payload # 0
          /\ Alone(w)
          /\ PaymentsOfCheckout(w) # {} )
        => Changed \subseteq PaymentsOfCheckout(w)

\* C30: a notification whose order code matches no order but whose checkout
\* id belongs to a payment of the tenant, handled alone with a signature
\* that verifies, is not answered 'order not found'.
C30_OrderResolvedByCheckout ==
    \A w \in Workers :
        ( /\ wk[w].payload # 0
          /\ Done(w) /\ Alone(w) /\ wk[w].sig /\ ~wk[w].dup
          /\ DataOf(w).order_code \notin {Null, OrderCode}
          /\ PaymentsOfCheckout(w) # {} )
        => wk[w].resp # 404

\* C31: the endpoints dispatch on the normalized status: a notification
\* naming the order whose normalized status is 'failed', handled alone with
\* a signature that verifies, has put a payment of the order into Failed,
\* and one whose normalized status is 'succeeded', when the host confirm did
\* not raise, has put a payment into Confirmed.
C31_DispatchOnNormalizedStatus ==
    \A w \in Workers :
        ( /\ wk[w].payload # 0
          /\ Done(w) /\ Alone(w) /\ wk[w].sig /\ ~wk[w].raised
          /\ DataOf(w).order_code = OrderCode )
        => /\ DataOf(w).status_recurrente = "failed" =>
                  \E p \in Payments : pstate[p] = "failed"
           /\ DataOf(w).status_recurrente = "succeeded" =>
                  \E p \in Payments : pstate[p] = "confirmed"

\* C32: the fail transition is idempotent: a failed notification whose
\* located payment is already Failed is answered 200 and writes neither the
\* state nor the info of that payment.
C32_FailIdempotent ==
    [][\A w \in Workers :
          ( /\ wk[w].pc = "fail_write"
            /\ wk[w].lstate = "failed"
            /\ wk'[w] # wk[w] )
          => /\ wk'[w].pc = "done"
             /\ wk'[w].resp = 200
             /\ pstate' = pstate
             /\ pinfo' = pinfo
             /\ nTrans' = nTrans]_vars

\* A failed notification has been answered 200 for a payment it found
\* Failed, which had been set to Failed once before.
C32_Witness ==
    \E w \in Workers :
        /\ wk[w].payload # 0
        /\ Done(w) /\ KindOf(w) \in FailedKinds
        /\ wk[w].pay # 0 /\ wk[w].seen = "failed"
        /\ wk[w].resp = 200
        /\ pstate[wk[w].pay] = "failed"
        /\ nTrans[wk[w].pay] = 1

\* The info fields that hold a value or null.
NullableFields == {"checkout_id", "payment_id", "payment_status", "status", "estado"}

\* C33: handling a succeeded notification never discards a stored info
\* field: in every step of such a delivery, each field of each payment that
\* held a non-null value (the stored checkout id in particular) still holds
\* a non-null value afterwards.
C33_InfoFieldsKept ==
    [][\A w \in Workers :
          ( /\ wk[w].payload # 0
            /\ KindOf(w) \in SucceededKinds
            /\ wk'[w] # wk[w] )
          => \A p \in Payments, f \in NullableFields :
                 pinfo[p][f] # Null => pinfo'[p][f] # Null]_vars

\* The stored info of p marks it as confirmed.
MarkedConfirmed(p) ==
    \/ pinfo[p].status = "succeeded"
    \/ pinfo[p].confirmed_at
    \/ pinfo[p].estado = "Confirmado"

\* C34: a payment whose stored info marks it as confirmed has state
\* Confirmed; checked in the states where no request is being handled.
C34_MarkedImpliesConfirmed ==
    (\A w \in Workers : wk[w].pc \in {"idle", "done"})
        => \A p \in Payments : MarkedConfirmed(p) => pstate[p] = "confirmed"

\* C35: the number of 'payment confirmed' audit entries of a payment equals
\* the number of host confirms that succeeded for it, and is at most one.
C35_OneAuditEntry ==
    \A p \in Payments :
        /\ AuditEntries(p) = confirmOK[p]
        /\ AuditEntries(p) <= 1

\* C36: notifications of different event kinds never share a duplicate
\* fingerprint: a delivery is suppressed as a duplicate only when a delivery
\* of the same kind has passed the duplicate check before it.
C36_KindInFingerprint ==
    \A w \in Workers :
        (wk[w].payload # 0 /\ wk[w].dup) =>
            \E v \in Workers \ {w} :
                /\ wk[v].payload # 0 /\ wk[v].fresh
                /\ KindOf(v) = KindOf(w)

\* A succeeded and a failed notification carrying the same id have both
\* passed the duplicate check and been handled.
C36_Witness ==
    \E w, v \in Workers :
        /\ wk[w].payload # 0 /\ wk[v].payload # 0
        /\ Done(w) /\ Done(v)
        /\ wk[w].fresh /\ wk[v].fresh
        /\ PayloadOf(w).id = PayloadOf(v).id
        /\ KindOf(w) \in SucceededKinds /\ KindOf(v) \in FailedKinds

\* The metadata paths of a payload that hold a dict.
DictPaths(pl) ==
    {path \in {"cmeta", "tmeta", "pmeta", "dmeta"} :
        /\ pl[path] = "dict"
        /\ path = "cmeta" => pl.checkout}

\* C37: extraction takes the order code from the first of the paths
\* checkout.metadata, metadata, payment.metadata, data.metadata that holds a
\* dict: the extraction of a delivered payload that has a metadata dict at
\* any of them yields the order code of that dict.
C37_MetadataPaths ==
    \A w \in Workers :
        (wk[w].payload # 0 /\ DictPaths(PayloadOf(w)) # {})
            => DataOf(w).order_code = PayloadOf(w).meta.order_code

\* The kind a payload names, in event_type or in type.
NamedKind(pl) == IF pl.event_type # Null THEN pl.event_type ELSE pl.type

\* C38: extraction determines the event kind from 'type' as well as from
\* 'event_type': the extraction of a delivered payload yields the kind the
\* payload names in either field, and the normalized status of that kind.
C38_KindFromType ==
    \A w \in Workers :
        wk[w].payload # 0 =>
            /\ DataOf(w).event_type = NamedKind(PayloadOf(w))
            /\ NamedKind(PayloadOf(w)) = "payment_intent.succeeded"
                   => DataOf(w).status_recurrente = "succeeded"

\* C39: the periodic reconciliation task is disabled: a run leaves the state
\* and the info of every payment unchanged and reports zero events, updates,
\* confirmations and errors.
C39_PeriodicTaskDisabled ==
    [][\A w \in Workers :
          (wk[w].pc = "idle" /\ wk'[w].endpoint = "periodic") =>
              /\ pstate' = pstate
              /\ pinfo' = pinfo
              /\ wk'[w].report.events = 0
              /\ wk'[w].report.updated = 0
              /\ wk'[w].report.confirmed = 0
              /\ wk'[w].report.errors = 0]_vars

\* The task has run while a payment was pending, beside a delivery or a
\* customer request that was being handled.
C39_Witness ==
    \E w, v \in Workers :
        /\ Done(w) /\ wk[w].endpoint = "periodic"
        /\ wk[w].report = update_pending_payments
        /\ wk[v].pc \notin {"idle", "done"}
        /\ \E p \in Payments : pstate[p] = "pending"

====
